---- MODULE Spec2Model ----
(***************************************************************************)
(* Model of src/hash_table.py: a fixed-size hash table of contacts with    *)
(* separate chaining.  Strings are sequences of one-character strings, so  *)
(* that the hash function can iterate over a key and print_table can       *)
(* build its lines character by character.  Nodes live in a heap `nodes`   *)
(* (a sequence; a node's identity is its position), None is 0.             *)
(***************************************************************************)
EXTENDS Integers, Sequences, FiniteSets, TLC

\* ---- bounds of the model ------------------------------------------------
MaxKeyLen == 2          \* longest key passed to insert and search
MaxCapacity == 2        \* largest size passed to HashTable()
MaxNodes == 3           \* insert of a new key is cut off at this many nodes
MaxHashKeyLen == 3      \* longest key passed to hash_function alone
MaxHashCapacity == 10   \* largest table size hash_function is tried with

\* keys passed to insert and search: "", "a", "aa", ... and "b"
Keys == {[i \in 1..n |-> "a"] : n \in 0..MaxKeyLen} \cup {<<"b">>}
HashChars == {"A", "M", "a", "m", "y"}
HashKeys == UNION {[1..n -> HashChars] : n \in 0..MaxHashKeyLen}
Numbers == {<<"1">>, <<"2">>}
Capacities == (0 - 1)..MaxCapacity

None == 0

VARIABLES
  status,   \* "none" before a HashTable exists, "ok" once __init__ returned
  size,     \* self.size
  data,     \* self.data: index -> head node or None
  nodes,    \* heap of Node objects: [key, value: Contact, next]
  call,     \* the most recent call: [op, key, number, arg, known]
  ret,      \* what it returned or raised: [val, raised]
  out,      \* the lines it printed
  order,    \* history: keys in the order of their first insert
  last      \* history: key -> number most recently passed to insert

vars == <<status, size, data, nodes, call, ret, out, order, last>>

\* ---- Contact and Node ---------------------------------------------------
Contact(name, number) == [name |-> name, number |-> number]

Node(key, value) == [key |-> key, value |-> value, next |-> None]

Contact_str_swapped(c) == c.number \o <<":", " ">> \o c.name

\* f"{self.name}: {self.number}"
Contact_str(c) == c.name \o <<":", " ">> \o c.number

\* ---- builtins -----------------------------------------------------------
ord(ch) ==
  CASE ch = "a" -> 97
    [] ch = "b" -> 98
    [] ch = "m" -> 109
    [] ch = "y" -> 121
    [] ch = "A" -> 65
    [] ch = "M" -> 77

Digit(d) == <<"0", "1", "2", "3", "4", "5", "6", "7", "8", "9">>[d + 1]

RECURSIVE int_str(_)
int_str(i) == IF i < 10 THEN <<Digit(i)>> ELSE int_str(i \div 10) \o <<Digit(i % 10)>>

\* ---- HashTable.hash_function -------------------------------------------
RECURSIVE hash_loop(_, _, _)
hash_loop(key, i, total) ==
  IF i > Len(key) THEN total
  ELSE hash_loop(key, i + 1, total + ord(key[i]))

hash_function_skip(key) == hash_loop(key, 2, 0) % size

hash_function(key) == hash_loop(key, 1, 0) % size

\* ---- HashTable.__init__ -------------------------------------------------
init_zero(sz) ==
  IF sz < 0
  THEN /\ ret' = [val |-> None, raised |-> "ValueError"]
       /\ UNCHANGED <<status, size, data>>
  ELSE /\ ret' = [val |-> None, raised |-> ""]
       /\ status' = "ok"
       /\ size' = sz
       /\ data' = [i \in 0..(sz - 1) |-> None]

init(sz) ==
  IF sz <= 0
  THEN /\ ret' = [val |-> None, raised |-> "ValueError"]
       /\ UNCHANGED <<status, size, data>>
  ELSE /\ ret' = [val |-> None, raised |-> ""]
       /\ status' = "ok"
       /\ size' = sz
       /\ data' = [i \in 0..(sz - 1) |-> None]

\* ---- HashTable.insert ---------------------------------------------------
\* the while loop: stops at the node holding key, or at the last node
RECURSIVE insert_walk(_, _)
insert_walk(current, key) ==
  IF nodes[current].key = key THEN [found |-> TRUE, current |-> current]
  ELSE IF nodes[current].next = None THEN [found |-> FALSE, current |-> current]
  ELSE insert_walk(nodes[current].next, key)

\* the three outcomes of insert, given the bucket and the result of the walk
insert_empty(index, key, number) ==
  /\ nodes' = Append(nodes, Node(key, Contact(key, number)))
  /\ data' = [data EXCEPT ![index] = Len(nodes) + 1]

insert_update_head(index, current, number) ==
  /\ nodes' = [nodes EXCEPT ![data[index]].value.number = number]
  /\ UNCHANGED data

insert_update_dup(index, current, number) ==
  /\ nodes' = [Append(nodes, Node(nodes[current].key, Contact(nodes[current].key, number)))
                 EXCEPT ![current].next = Len(nodes) + 1]
  /\ UNCHANGED data

insert_update(index, current, number) ==
  /\ nodes' = [nodes EXCEPT ![current].value.number = number]
  /\ UNCHANGED data

insert_append_overwrite(index, current, key, number) ==
  /\ nodes' = [nodes EXCEPT ![current] = Node(key, Contact(key, number))]
  /\ UNCHANGED data

insert_append_front(index, current, key, number) ==
  /\ nodes' = Append(nodes, [Node(key, Contact(key, number)) EXCEPT !.next = data[index]])
  /\ data' = [data EXCEPT ![index] = Len(nodes) + 1]

insert_append(index, current, key, number) ==
  /\ nodes' = [Append(nodes, Node(key, Contact(key, number)))
                 EXCEPT ![current].next = Len(nodes) + 1]
  /\ UNCHANGED data

insert_index_shifted(key) == (hash_function(key) + 1) % size

insert_index(key) == hash_function(key)

insert(key, number) ==
  LET index == insert_index(key)
      head == data[index]
  IN IF head = None
     THEN insert_empty(index, key, number)
     ELSE LET w == insert_walk(head, key)
          IN IF w.found
             THEN insert_update(index, w.current, number)
             ELSE insert_append(index, w.current, key, number)

\* ---- HashTable.search ---------------------------------------------------
\* the while loop: the node whose Contact is returned, or None
RECURSIVE search_walk(_, _)
search_walk(current, key) ==
  IF current = None THEN None
  ELSE IF nodes[current].key = key THEN current
  ELSE search_walk(nodes[current].next, key)

search_return_head(key) == data[hash_function(key)]

search_return(key) == search_walk(data[hash_function(key)], key)

search_cursor(key) ==
  /\ ret' = [val |-> search_return(key), raised |-> ""]
  /\ data' = [data EXCEPT ![hash_function(key)] = search_return(key)]
  /\ UNCHANGED <<status, size, nodes>>

search(key) ==
  /\ ret' = [val |-> search_return(key), raised |-> ""]
  /\ UNCHANGED <<status, size, data, nodes>>

\* ---- HashTable.print_table ---------------------------------------------
RECURSIVE chain_line(_, _)
chain_line(line, current) ==
  IF current = None THEN line
  ELSE chain_line(line \o <<" ", "-", " ">> \o Contact_str(nodes[current].value),
                  nodes[current].next)

bucket_line(i) ==
  LET current == data[i]
  IN IF current = None
     THEN <<"I", "n", "d", "e", "x", " ">> \o int_str(i) \o <<":", " ", "E", "m", "p", "t", "y">>
     ELSE chain_line(<<"I", "n", "d", "e", "x", " ">> \o int_str(i) \o <<":">>, current)

print_table ==
  /\ out' = [n \in 1..size |-> bucket_line(n - 1)]
  /\ ret' = [val |-> None, raised |-> ""]
  /\ UNCHANGED <<status, size, data, nodes>>

\* ---- the calls a client can make ---------------------------------------
NoCall == [op |-> "none", key |-> <<>>, number |-> <<>>, arg |-> 0,
           known |-> FALSE, prev |-> <<>>]

Init ==
  /\ status = "none"
  /\ size = 0
  /\ data = <<>>
  /\ nodes = <<>>
  /\ call = NoCall
  /\ ret = [val |-> None, raised |-> ""]
  /\ out = <<>>
  /\ order = <<>>
  /\ last = <<>>

Construct ==
  \E sz \in Capacities :
    /\ status = "none"
    /\ init(sz)
    /\ call' = [NoCall EXCEPT !.op = "init", !.arg = sz]
    /\ out' = <<>>
    /\ UNCHANGED <<nodes, order, last>>

Insert ==
  \E key \in Keys, number \in Numbers :
    /\ status = "ok"
    /\ key \in DOMAIN last \/ Len(nodes) < MaxNodes
    /\ insert(key, number)
    /\ call' = [NoCall EXCEPT !.op = "insert", !.key = key, !.number = number,
                              !.known = (key \in DOMAIN last),
                              !.prev = IF key \in DOMAIN last THEN last[key] ELSE <<>>]
    /\ ret' = [val |-> None, raised |-> ""]
    /\ out' = <<>>
    /\ order' = IF key \in DOMAIN last THEN order ELSE Append(order, key)
    /\ last' = [k \in DOMAIN last \cup {key} |-> IF k = key THEN number ELSE last[k]]
    /\ UNCHANGED <<status, size>>

Search ==
  \E key \in Keys :
    /\ status = "ok"
    /\ search(key)
    /\ call' = [NoCall EXCEPT !.op = "search", !.key = key]
    /\ out' = <<>>
    /\ UNCHANGED <<order, last>>

PrintTable ==
  /\ status = "ok"
  /\ print_table
  /\ call' = [NoCall EXCEPT !.op = "print"]
  /\ UNCHANGED <<order, last>>

Next == Construct \/ Insert \/ Search \/ PrintTable

Spec == Init /\ [][Next]_vars

\* ---- hash_function on its own, over longer keys and larger tables -------
HashInit ==
  /\ status = "ok"
  /\ size \in 1..MaxHashCapacity
  /\ data = [i \in 0..(size - 1) |-> None]
  /\ nodes = <<>>
  /\ call = [NoCall EXCEPT !.op = "init", !.arg = size]
  /\ ret = [val |-> None, raised |-> ""]
  /\ out = <<>>
  /\ order = <<>>
  /\ last = <<>>

Hash ==
  \E key \in HashKeys :
    /\ status = "ok"
    /\ ret' = [val |-> hash_function(key), raised |-> ""]
    /\ call' = [NoCall EXCEPT !.op = "hash", !.key = key]
    /\ out' = <<>>
    /\ UNCHANGED <<status, size, data, nodes, order, last>>

HashNext == Hash

HashSpec == HashInit /\ [][HashNext]_vars

\* ---- vocabulary of the properties --------------------------------------
table == <<status, size, data, nodes>>

Buckets == 0..(size - 1)

\* the nodes of a chain, head first
RECURSIVE ChainFrom(_)
ChainFrom(current) ==
  IF current = None THEN <<>> ELSE <<current>> \o ChainFrom(nodes[current].next)

Chain(i) == ChainFrom(data[i])

ChainKeys(i) == [j \in DOMAIN Chain(i) |-> nodes[Chain(i)[j]].key]

InChain(n, i) == \E j \in DOMAIN Chain(i) : Chain(i)[j] = n

NodesWithKey(k) == {n \in DOMAIN nodes : nodes[n].key = k}

\* sum of the code points of a key, character by character count
CodeSum(key) ==
  LET RECURSIVE S(_)
      S(cs) == IF cs = {} THEN 0
               ELSE LET c == CHOOSE x \in cs : TRUE
                    IN ord(c) * Cardinality({i \in DOMAIN key : key[i] = c}) + S(cs \ {c})
  IN S({key[i] : i \in DOMAIN key})

Inserted == DOMAIN last

\* C1: once (key, value) pairs have been inserted, search for each inserted
\* key returns the record of that key, holding the value last inserted for it;
\* this is so for the table itself and for the result of every search call.
RoundTrip ==
  status = "ok" =>
    /\ \A k \in Inserted :
         /\ search_return(k) # None
         /\ nodes[search_return(k)].value = Contact(k, last[k])
    /\ (call.op = "search" /\ call.key \in Inserted) =>
         /\ ret.val # None
         /\ ret.raised = ""
         /\ nodes[ret.val].value = Contact(call.key, last[call.key])

RoundTripWitness ==
  /\ call.op = "search"
  /\ Len(order) = 3
  /\ call.key = order[2]
  /\ ret.val # None
  /\ \E k \in Inserted : last[k] # last[call.key]

\* C2: an insert of a key that is already present with another value leaves
\* exactly one record for the key, holding the new value, and the chain of the
\* key's bucket is as long after the insert as it was before.
UpdateSemantics ==
  [][\A k \in Keys, h \in Buckets :
       (/\ call'.op = "insert" /\ call'.key = k /\ h = hash_function(k)
        /\ call'.known /\ call'.prev # call'.number) =>
          /\ Cardinality(NodesWithKey(k)) = 1
          /\ Cardinality(NodesWithKey(k)') = 1
          /\ \A n \in NodesWithKey(k)' : nodes'[n].value = Contact(k, call'.number)
          /\ Len(Chain(h)') = Len(Chain(h))
          /\ Len(nodes') = Len(nodes)]_vars

UpdateSemanticsWitness ==
  /\ call.op = "insert"
  /\ call.known
  /\ call.prev # call.number
  /\ Len(Chain(hash_function(call.key))) = 3
  /\ Chain(hash_function(call.key))[2] \in NodesWithKey(call.key)

\* C3: search for a key that was never passed to insert returns None and raises
\* nothing, whatever the table holds, also when the key's bucket is not empty.
Absence ==
  status = "ok" =>
    /\ \A k \in Keys \ Inserted : search_return(k) = None
    /\ (call.op = "search" /\ call.key \notin Inserted) =>
         (ret.val = None /\ ret.raised = "")

AbsenceWitness ==
  /\ call.op = "search"
  /\ call.key \notin Inserted
  /\ data[hash_function(call.key)] # None
  /\ ret.val = None

\* C4: HashTable(size) with size <= 0 raises ValueError and no table exists
\* afterwards; with size >= 1 it raises nothing and the table has exactly size
\* bucket slots, all of them None.
ConstructionValidity ==
  call.op = "init" =>
    /\ call.arg <= 0 => (ret.raised = "ValueError" /\ status = "none")
    /\ call.arg >= 1 =>
         /\ ret.raised = ""
         /\ status = "ok"
         /\ size = call.arg
         /\ DOMAIN data = 0..(call.arg - 1)
         /\ \A i \in DOMAIN data : data[i] = None

ConstructionRejected ==
  call.op = "init" /\ call.arg = 0 /\ ret.raised = "ValueError" /\ status = "none"

\* C5: two distinct inserted keys whose code point sums are congruent modulo
\* the size are two distinct nodes of one bucket chain, and search for each
\* returns the record with its own key and its own value.
CollisionCorrectness ==
  status = "ok" =>
    \A k1, k2 \in Inserted :
      (k1 # k2 /\ (CodeSum(k1) % size) = (CodeSum(k2) % size)) =>
        LET n1 == search_return(k1)
            n2 == search_return(k2)
            i == CodeSum(k1) % size
        IN /\ n1 # None /\ n2 # None /\ n1 # n2
           /\ InChain(n1, i) /\ InChain(n2, i)
           /\ nodes[n1].value = Contact(k1, last[k1])
           /\ nodes[n2].value = Contact(k2, last[k2])

CollisionWitness ==
  /\ status = "ok"
  /\ size = 2
  /\ call.op = "search"
  /\ \E k1, k2 \in Inserted :
       /\ k1 # k2
       /\ (CodeSum(k1) % size) = (CodeSum(k2) % size)
       /\ last[k1] # last[k2]
       /\ call.key = k2
       /\ ret.val = search_return(k2)
       /\ Chain(CodeSum(k1) % size) = <<search_return(k1), search_return(k2)>>

\* C6: in every state reached by inserts, the keys of one chain are pairwise
\* distinct, every node is in the chain of the bucket its key hashes to, and
\* each stored key is the key of exactly one node of the table.
KeyPlacement ==
  status = "ok" =>
    /\ \A i \in Buckets : \A j1, j2 \in DOMAIN Chain(i) :
         j1 # j2 => ChainKeys(i)[j1] # ChainKeys(i)[j2]
    /\ \A n \in DOMAIN nodes :
         /\ InChain(n, hash_function(nodes[n].key))
         /\ \A i \in Buckets : InChain(n, i) => i = hash_function(nodes[n].key)
    /\ \A k \in Inserted : Cardinality(NodesWithKey(k)) = 1
    /\ \A k \in Keys \ Inserted : NodesWithKey(k) = {}

KeyPlacementWitness ==
  /\ status = "ok"
  /\ size = 2
  /\ Len(nodes) = 3
  /\ \A i \in Buckets : data[i] # None
  /\ call.op = "insert" /\ call.known

\* C7: a search call, whether it finds the key or not, leaves the size, the
\* bucket array, every chain and every record as they were.
SearchPure ==
  [][call'.op = "search" => table' = table]_vars

SearchPureWitness ==
  /\ call.op = "search"
  /\ ret.val # None
  /\ ret.val # data[hash_function(call.key)]
  /\ Len(nodes) = 3

\* C8: an insert of a new key into a non-empty bucket puts its node at the tail
\* of the chain and keeps the nodes before it in their order; an insert of a
\* present key keeps every chain's nodes in their positions; so every chain
\* lists its keys in the order of their first insertion.
ChainOrderStep ==
  \A k \in Keys, h \in Buckets :
    (call'.op = "insert" /\ call'.key = k /\ h = hash_function(k)) =>
       /\ \A i \in Buckets \ {h} : Chain(i)' = Chain(i)
       /\ IF call'.known
            THEN Chain(h)' = Chain(h) /\ ChainKeys(h)' = ChainKeys(h)
            ELSE /\ Chain(h)' = Append(Chain(h), Len(nodes) + 1)
                 /\ ChainKeys(h)' = Append(ChainKeys(h), k)

ChainOrderInv ==
  status = "ok" =>
    \A i \in Buckets :
      ChainKeys(i) = SelectSeq(order, LAMBDA k : hash_function(k) = i)

ChainOrder == [](ChainOrderInv) /\ [][ChainOrderStep]_vars

ChainOrderWitness ==
  /\ call.op = "insert"
  /\ ~call.known
  /\ Len(Chain(hash_function(call.key))) = 3
  /\ ChainKeys(hash_function(call.key)) = order

\* C9: hash_function returns the sum of the code points of the key's characters
\* modulo the size: a value in 0..size-1, 0 for the empty key, and the same
\* value for every rearrangement of the key's characters.
HashIndex ==
  call.op = "hash" =>
    /\ ret.val = CodeSum(call.key) % size
    /\ ret.val \in 0..(size - 1)
    /\ call.key = <<>> => ret.val = 0
    /\ \A p \in Permutations(DOMAIN call.key) :
         hash_function([j \in DOMAIN call.key |-> call.key[p[j]]]) = ret.val

HashIndexWitness ==
  /\ call.op = "hash"
  /\ size = 10
  /\ call.key = <<"M", "a", "y">>
  /\ ret.val = hash_function(<<"A", "m", "y">>)
  /\ ret.val = 5

\* C10: print_table prints one line per bucket, for the indices 0..size-1 in
\* increasing order: the line of an empty bucket says Empty, the line of a
\* non-empty bucket lists the records of its chain from head to tail, each as
\* "<name>: <number>" with the current number; the call leaves the table as it
\* was, and a print_table right after a print_table prints the same lines.
Concat(ss) ==
  LET RECURSIVE C(_)
      C(n) == IF n = 0 THEN <<>> ELSE C(n - 1) \o ss[n]
  IN C(Len(ss))

LinePrefix(i) == <<"I", "n", "d", "e", "x", " ", Digit(i), ":">>

ExpectedLine(i) ==
  IF Chain(i) = <<>>
  THEN LinePrefix(i) \o <<" ", "E", "m", "p", "t", "y">>
  ELSE LinePrefix(i) \o
       Concat([j \in DOMAIN Chain(i) |->
                 <<" ", "-", " ">> \o nodes[Chain(i)[j]].key \o <<":", " ">>
                   \o nodes[Chain(i)[j]].value.number])

DumpInv ==
  call.op = "print" =>
    /\ ret.raised = ""
    /\ Len(out) = size
    /\ \A i \in Buckets : out[i + 1] = ExpectedLine(i)

DumpStep ==
  call'.op = "print" =>
    /\ table' = table
    /\ call.op = "print" => out' = out

DumpCorrect == [](DumpInv) /\ [][DumpStep]_vars

DumpWitness ==
  /\ call.op = "print"
  /\ size = 2
  /\ out[1] = <<"I", "n", "d", "e", "x", " ", "0", ":", " ", "-", " ", "b", ":", " ", "2",
                " ", "-", " ", ":", " ", "1">>
  /\ out[2] = <<"I", "n", "d", "e", "x", " ", "1", ":", " ", "E", "m", "p", "t", "y">>
====
